---- MODULE Spec2Model ----
(***************************************************************************)
(* Intent classification and DSL knowledge retrieval of the rules-engine   *)
(* AI assistant (ai-poc-python/rag): two ChromaDB collections populated    *)
(* lazily from the catalog, the k-nearest-neighbour vote of                *)
(* IntentClassifier.classify, and reset().                                 *)
(*                                                                         *)
(* Numbers.  Python floats are modelled as exact rationals <<n, d>> in     *)
(* lowest terms.  Embedding vectors are one-dimensional; a vector v is the *)
(* coordinate v/2, and the collection's distance is ChromaDB's default,    *)
(* squared L2.  A value rounded by round(x, 3) is kept as the integer      *)
(* number of thousandths (800 stands for 0.8).                             *)
(***************************************************************************)
EXTENDS Integers, Sequences, FiniteSets, TLC

\* ------------------------------------------------------------------ bounds
\* Largest top_k a caller passes to classify (the default is 3).
MaxTopK == 3
\* Number of collections the ChromaDB server creates in one behaviour.
MaxUuid == 3

\* Longest message, in characters, given to compose.
MaxMessageLen == 3

\* Longest conversation history followed.
MaxHistory == 4

\* ------------------------------------------------------------- the threads
\* Two sessions (Streamlit script threads) of the one server process.
Callers == {"t1", "t2"}

\* ------------------------------------------------------------ the catalog
\* Texts are numbered; 1..5 are catalog examples, 6 is a message that is no
\* catalog example.
Messages == 1..6

\* The catalog versions a deployment can carry: INTENT_DEFINITIONS as a list
\* of intents, each with its id, display name and example list.
INTENT_DEFINITIONS(v) ==
    CASE v = 1 -> << [id |-> "create_event", name |-> "N_create", examples |-> <<1>>],
                     [id |-> "update_event", name |-> "N_update", examples |-> <<2, 3>>] >>
      [] v = 2 -> << [id |-> "update_event", name |-> "N_update", examples |-> <<1>>],
                     [id |-> "create_event", name |-> "N_create", examples |-> <<3, 4>>] >>
      [] OTHER -> << [id |-> "general", name |-> "N_general", examples |-> <<5>>] >>

CatalogVersions == {1, 2, 3}

\* INTENT_BY_ID.get(intent_id, {}).get("name", intent_id)
IntentName(v, intent_id) ==
    LET defs == INTENT_DEFINITIONS(v)
        hit == {i \in 1..Len(defs) : defs[i].id = intent_id}
    IN IF hit = {} THEN intent_id ELSE defs[CHOOSE i \in hit : TRUE].name

\* ----------------------------------------------------- embedding provider
\* GeminiEmbedder.embed_query: one vector per text.  Texts 3 and 4 are
\* paraphrases with the same embedding; text 5 is far from everything else.
EmbedQuery(text) ==
    CASE text = 1 -> 0
      [] text = 2 -> 1
      [] text \in {3, 4} -> 2
      [] text = 5 -> 90
      [] OTHER -> 3

\* GeminiEmbedder.embed: batch call, one vector per input, same order.
Embed(texts) == [i \in 1..Len(texts) |-> EmbedQuery(texts[i])]

\* ------------------------------------------------------------- rationals
RECURSIVE Gcd(_, _)
Gcd(a, b) == IF b = 0 THEN a ELSE Gcd(b, a % b)

Norm(r) == LET g == Gcd(r[1], r[2]) IN IF g = 0 THEN <<0, 1>> ELSE <<r[1] \div g, r[2] \div g>>
RAdd(a, b) ==
    LET g == Gcd(a[2], b[2])
    IN Norm(<<a[1] * (b[2] \div g) + b[1] * (a[2] \div g), (a[2] \div g) * b[2]>>)
RDivInt(a, k) == Norm(<<a[1], a[2] * k>>)
RLess(a, b) ==
    LET g == Gcd(a[2], b[2])
    IN a[1] * (b[2] \div g) < b[1] * (a[2] \div g)
RZero == <<0, 1>>
ROne == <<1, 1>>

\* round(x, 3) for x >= 0: thousandths, ties to even.
Round3(r) ==
    LET p == 1000 * r[1]
        q == r[2]
        fl == p \div q
        rem == p % q
    IN IF 2 * rem < q THEN fl
       ELSE IF 2 * rem > q THEN fl + 1
       ELSE IF fl % 2 = 0 THEN fl ELSE fl + 1

\* Squared L2 distance of two vectors (coordinates are v/2).
Distance(u, v) == Norm(<<(u - v) * (u - v), 4>>)

\* similarity = 1.0 / (1.0 + distance)
Similarity(d) == Norm(<<d[2], d[2] + d[1]>>)


\* ------------------------------------------------ DSL knowledge catalog
\* DSL_INDEX per catalog version: id, title, description, keywords and the
\* content locator (module path + variable name).  Version 3 has no entry.
DSL_INDEX(v) ==
    CASE v = 1 -> << [id |-> "pattern_early_bird", title |-> 1, description |-> 1, keywords |-> 1,
                      source |-> [module |-> "patterns.early_bird", variable |-> "EARLY_BIRD_PATTERN"]],
                     [id |-> "pricing_set_price", title |-> 2, description |-> 2, keywords |-> 2,
                      source |-> [module |-> "pricing_actions.set_price", variable |-> "SET_PRICE_SPEC"]],
                     [id |-> "form_select", title |-> 3, description |-> 3, keywords |-> 3,
                      source |-> [module |-> "form_schema.select_field", variable |-> "SELECT_FIELD_SPEC"]] >>
      [] v = 2 -> << [id |-> "pricing_set_price", title |-> 2, description |-> 2, keywords |-> 2,
                      source |-> [module |-> "pricing_actions.set_price", variable |-> "SET_PRICE_SPEC"]],
                     [id |-> "form_select", title |-> 3, description |-> 3, keywords |-> 3,
                      source |-> [module |-> "form_schema.select_field", variable |-> "SELECT_FIELD_SPEC"]] >>
      [] OTHER -> << >>

\* f"{title}\n{description}\n{' '.join(keywords)}": the three parts, each
\* recoverable from the text.
SearchableText(item) == 1000 + 100 * item.title + 10 * item.description + item.keywords

\* get_index_for_embedding()
get_index_for_embedding(v) ==
    [i \in 1..Len(DSL_INDEX(v)) |->
        [id |-> DSL_INDEX(v)[i].id,
         text |-> SearchableText(DSL_INDEX(v)[i]),
         metadata |-> [title |-> DSL_INDEX(v)[i].title,
                       module |-> DSL_INDEX(v)[i].source.module,
                       variable |-> DSL_INDEX(v)[i].source.variable]]]

\* DSLRetriever._embed_batch / _embed_query: the searchable text of the
\* entry titled n is embedded at coordinate n - 1 (vector 2n - 2).
EmbedDslQuery(text) == IF text >= 1000 THEN 2 * ((text - 1000) \div 100) - 2 ELSE EmbedQuery(text)
EmbedDslBatch(texts) == [i \in 1..Len(texts) |-> EmbedDslQuery(texts[i])]

\* --------------------------------------------------------- content store
\* importlib.import_module(module_path) in the process of version v: the
\* import raises, or gives the module with the names it binds.  Version 1
\* carries the three modules; version 2 has dropped patterns.early_bird;
\* version 3 cannot import patterns.early_bird (the module raises on
\* import), has renamed SET_PRICE_SPEC and holds an empty SELECT_FIELD_SPEC.
import_module(v, module_path) ==
    CASE module_path = "patterns.early_bird" ->
            IF v = 1 THEN [raised |-> FALSE, names |-> {<<"EARLY_BIRD_PATTERN", "early_bird_text">>}]
            ELSE [raised |-> TRUE, names |-> {}]
      [] module_path = "pricing_actions.set_price" ->
            IF v = 3 THEN [raised |-> FALSE, names |-> {<<"SET_PRICE", "set_price_text">>}]
            ELSE [raised |-> FALSE, names |-> {<<"SET_PRICE_SPEC", "set_price_text">>}]
      [] module_path = "form_schema.select_field" ->
            IF v = 3 THEN [raised |-> FALSE, names |-> {<<"SELECT_FIELD_SPEC", "">>}]
            ELSE [raised |-> FALSE, names |-> {<<"SELECT_FIELD_SPEC", "select_field_text">>}]
      [] OTHER -> [raised |-> TRUE, names |-> {}]

\* Python's None, as a value no content text equals.
None == "<None>"

\* DSLRetriever._load_content: getattr(module, variable_name, None), and None
\* when the import raises.
load_content(v, module_path, variable_name) ==
    LET module == import_module(v, module_path)
        bound == {p \in module.names : p[1] = variable_name}
    IN IF module.raised \/ bound = {} THEN None ELSE (CHOOSE p \in bound : TRUE)[2]

\* A filter that lets every hit through.
KeepsAnything(content) == content = content

\* `if content:` of search: neither None nor the empty string.
Keeps(content) == content # None /\ content # ""

\* ------------------------------------------- the population routine's data
\* The documents / metadatas / ids lists IntentClassifier._initialize_collection
\* builds: one entry per (intent, example), in catalog order, with id
\* f"{intent_id}_{i}" kept as the pair <<intent_id, i>>, i counted from 0
\* (IntentExamplesFromOne counts from 1).
IntentExamplesFromOne(intent) ==
    [i \in 1..Len(intent.examples) |->
        [id |-> <<intent.id, i>>,
         text |-> intent.examples[i],
         metadata |-> [intent_id |-> intent.id, intent_name |-> intent.name]]]

IntentExamples(intent) ==
    [i \in 1..Len(intent.examples) |->
        [id |-> <<intent.id, i - 1>>,
         text |-> intent.examples[i],
         metadata |-> [intent_id |-> intent.id, intent_name |-> intent.name]]]

RECURSIVE IntentIndexData(_, _)
IntentIndexData(defs, n) ==
    IF n = 0 THEN << >> ELSE IntentIndexData(defs, n - 1) \o IntentExamples(defs[n])

Kinds == {"intent", "dsl"}

\* COLLECTION_NAME of each class.
COLLECTION_NAME(k) == IF k = "intent" THEN "intent_examples_gemini" ELSE "dsl_knowledge"

\* What _initialize_collection of class k reads from the catalog.
IndexData(k, v) ==
    IF k = "intent" THEN IntentIndexData(INTENT_DEFINITIONS(v), Len(INTENT_DEFINITIONS(v)))
    ELSE get_index_for_embedding(v)

\* The records collection.add receives: ids, pre-computed embeddings,
\* metadatas and documents, position by position.
NewRecords(k, v) ==
    LET data == IndexData(k, v)
        texts == [i \in 1..Len(data) |-> data[i].text]
        embeddings == IF k = "intent" THEN Embed(texts) ELSE EmbedDslBatch(texts)
    IN [i \in 1..Len(data) |->
          [id |-> data[i].id, embedding |-> embeddings[i],
           metadata |-> data[i].metadata, document |-> data[i].text]]

\* ------------------------------------------------------- collection.query
\* Injective index sequences of length k over 1..n.
Picks(n, k) ==
    {f \in [1..k -> 1..n] : \A i, j \in 1..k : i # j => f[i] # f[j]}

\* The rankings collection.query(query_embeddings=[q], n_results=n) may
\* return over `records`: min(n, count) distinct records in ascending
\* distance, none of the left-out records strictly nearer than a returned
\* one.  The order among equidistant records is the index's choice.
Rankings(records, q, n) ==
    LET cnt == Len(records)
        k == IF n < cnt THEN n ELSE cnt
        dist(i) == Distance(q, records[i].embedding)
    IN {f \in Picks(cnt, k) :
          /\ \A i \in 1..k : \A j \in 1..k : i < j => ~RLess(dist(f[j]), dist(f[i]))
          /\ \A j \in 1..cnt : (\A i \in 1..k : f[i] # j)
                                  => \A i \in 1..k : ~RLess(dist(j), dist(f[i]))}

\* The result dict of one query, for the ranking f: the inner lists of
\* results["metadatas"], results["documents"], results["distances"].
QueryResult(records, q, f) ==
    [ids |-> [i \in 1..Len(f) |-> records[f[i]].id],
     metadatas |-> [i \in 1..Len(f) |-> records[f[i]].metadata],
     documents |-> [i \in 1..Len(f) |-> records[f[i]].document],
     distances |-> [i \in 1..Len(f) |-> Distance(q, records[f[i]].embedding)]]

\* ------------------------------------------------ IntentClassifier.classify
\* distance = distances[i] if i < len(distances) else 1.0
DistanceAt(results, i) == IF i <= Len(results.distances) THEN results.distances[i] ELSE ROne

\* A voting pass that puts each new example in front of the group's list.
AddVoteInFront(scores, results, i) ==
    LET intent_id == results.metadatas[i].intent_id
        similarity == Similarity(DistanceAt(results, i))
        example == [text |-> results.documents[i], similarity |-> Round3(similarity)]
        at == {j \in 1..Len(scores) : scores[j].intent_id = intent_id}
    IN IF at = {}
       THEN Append(scores, [intent_id |-> intent_id, total_similarity |-> similarity,
                            count |-> 1, examples |-> <<example>>])
       ELSE LET j == CHOOSE x \in at : TRUE
            IN [scores EXCEPT ![j] = [intent_id |-> intent_id,
                                       total_similarity |-> RAdd(@.total_similarity, similarity),
                                       count |-> @.count + 1,
                                       examples |-> <<example>> \o @.examples]]

\* One pass of the voting loop: intent_scores is kept as the list of its
\* entries in insertion order (a dict iterates in insertion order).
AddVote(scores, results, i) ==
    LET intent_id == results.metadatas[i].intent_id
        similarity == Similarity(DistanceAt(results, i))
        example == [text |-> results.documents[i], similarity |-> Round3(similarity)]
        at == {j \in 1..Len(scores) : scores[j].intent_id = intent_id}
    IN IF at = {}
       THEN Append(scores, [intent_id |-> intent_id, total_similarity |-> similarity,
                            count |-> 1, examples |-> <<example>>])
       ELSE LET j == CHOOSE x \in at : TRUE
            IN [scores EXCEPT ![j] = [intent_id |-> intent_id,
                                       total_similarity |-> RAdd(@.total_similarity, similarity),
                                       count |-> @.count + 1,
                                       examples |-> Append(@.examples, example)]]

RECURSIVE IntentScores(_, _)
IntentScores(results, n) ==
    IF n = 0 THEN << >> ELSE AddVote(IntentScores(results, n - 1), results, n)

\* A vote decided by the nearest neighbour alone: the first key.
BestIndexNearest(scores) ==
    CHOOSE j \in 1..Len(scores) : \A x \in 1..Len(scores) : j <= x

\* max(intent_scores.keys(), key=total_similarity): the first key, in
\* iteration order, whose total no other key exceeds.
BestIndex(scores) ==
    CHOOSE j \in 1..Len(scores) :
        /\ \A x \in 1..Len(scores) : ~RLess(scores[j].total_similarity, scores[x].total_similarity)
        /\ \A x \in 1..(j - 1) : RLess(scores[x].total_similarity, scores[j].total_similarity)

\* A default result that names no catalog intent.
default_result_unknown ==
    [intent_id |-> "unknown", intent_name |-> "unknown", confidence |-> 0, similar_examples |-> << >>]

\* IntentClassifier._default_result
default_result ==
    [intent_id |-> "general", intent_name |-> "N_general", confidence |-> 0, similar_examples |-> << >>]

\* A classify whose confidence divides by the number of all neighbours.
ClassifyResultOverAll(v, results) ==
    IF Len(results.metadatas) = 0 THEN default_result
    ELSE LET scores == IntentScores(results, Len(results.metadatas))
             best == scores[BestIndex(scores)]
             confidence == RDivInt(best.total_similarity, Len(results.metadatas))
         IN [intent_id |-> best.intent_id,
             intent_name |-> IntentName(v, best.intent_id),
             confidence |-> Round3(confidence),
             similar_examples |-> best.examples]

\* The value classify returns for a query result, in the process whose
\* catalog version is v.
ClassifyResult(v, results) ==
    IF Len(results.metadatas) = 0 THEN default_result
    ELSE LET scores == IntentScores(results, Len(results.metadatas))
             best == scores[BestIndex(scores)]
             confidence == RDivInt(best.total_similarity, best.count)
         IN [intent_id |-> best.intent_id,
             intent_name |-> IntentName(v, best.intent_id),
             confidence |-> Round3(confidence),
             similar_examples |-> best.examples]

\* ---------------------------------------------------- DSLRetriever.search
\* A result loop that puts each hit in front of the ones before it.
RECURSIVE SearchOutputNewestFirst(_, _, _)
SearchOutputNewestFirst(v, results, n) ==
    IF n = 0 THEN << >>
    ELSE LET metadata == results.metadatas[n]
             similarity == Similarity(DistanceAt(results, n))
             content == load_content(v, metadata.module, metadata.variable)
             output == SearchOutputNewestFirst(v, results, n - 1)
         IN IF Keeps(content)
            THEN <<[title |-> metadata.title, content |-> content,
                    similarity |-> Round3(similarity)]>> \o output
            ELSE output

\* The output list of search after the first n hits: each hit whose content
\* loads is appended with its title, content and rounded similarity.
RECURSIVE SearchOutput(_, _, _)
SearchOutput(v, results, n) ==
    IF n = 0 THEN << >>
    ELSE LET metadata == results.metadatas[n]
             similarity == Similarity(DistanceAt(results, n))
             content == load_content(v, metadata.module, metadata.variable)
             output == SearchOutput(v, results, n - 1)
         IN IF Keeps(content)
            THEN Append(output, [title |-> metadata.title, content |-> content,
                                 similarity |-> Round3(similarity)])
            ELSE output

\* ------------------------------------------------------ prompt fragments
\* The fragment texts, each by the name the module binds it to: twelve
\* different non-empty texts, none containing the separator.
BASE_PROMPT == "BASE_PROMPT"

\* PromptRetriever.INTENT_PROMPTS.get(intent_id, [])
INTENT_PROMPTS(intent_id) ==
    CASE intent_id = "create_event" -> <<"CREATE_EVENT_PROMPT">>
      [] intent_id = "update_event" -> <<"UPDATE_EVENT_PROMPT">>
      [] intent_id = "search_event" -> <<"SEARCH_EVENT_PROMPT">>
      [] intent_id = "get_event" -> <<"SEARCH_EVENT_PROMPT">>
      [] intent_id = "delete_event" -> <<"DELETE_EVENT_PROMPT">>
      [] intent_id = "calculate_price" -> <<"CALCULATE_PRICE_PROMPT">>
      [] intent_id = "preview_event" -> <<"PREVIEW_EVENT_PROMPT">>
      [] intent_id = "general" -> << >>
      [] OTHER -> << >>

\* PromptRetriever.ALL_DSL_SPECS
ALL_DSL_SPECS ==
    <<"DSL_OVERVIEW_PROMPT", "PRICING_RULES_PROMPT", "VALIDATION_RULES_PROMPT",
      "FORM_SCHEMA_PROMPT", "CONDITIONS_PROMPT">>

\* The intent ids compose is called with: keys of the table and one id the
\* table does not have.
ComposeIntents == {"create_event", "update_event", "get_event", "general", "no_such_intent"}

\* ------------------------------------------------------------- messages
\* A message is a sequence of characters.  "f", "e" and "F" are Latin
\* letters; "yuan", "zhe", "lan", "wei" and "xian" each stand for one CJK
\* character of the keyword table.
Characters == {"f", "e", "F", "zhe", "lan", "wei", "xian"}

ComposeMessages == UNION {[1..n -> Characters] : n \in 0..MaxMessageLen}

\* A lower() that leaves every character as it is.
lower_unchanged(message) == [i \in 1..Len(message) |-> message[i]]

\* str.lower(): upper-case letters become lower-case, all else is kept.
lower(message) ==
    [i \in 1..Len(message) |-> IF message[i] = "F" THEN "f" ELSE message[i]]

\* UPDATE_KEYWORDS, in declaration order, each category with some of its
\* keywords: "fee"; the one-character discount keyword; a two-character
\* form keyword; a one-character stand-in for the validation keywords.
UPDATE_KEYWORDS ==
    << [category |-> "pricing", keywords |-> << <<"f", "e", "e">> >>],
       [category |-> "discount", keywords |-> << <<"zhe">> >>],
       [category |-> "form", keywords |-> << <<"lan", "wei">> >>],
       [category |-> "validation", keywords |-> << <<"xian">> >>] >>

\* `keyword in message_lower`: substring test.
In(keyword, text) ==
    \E i \in 0..(Len(text) - Len(keyword)) :
        \A j \in 1..Len(keyword) : text[i + j] = keyword[j]

\* The loop of _detect_update_specs over UPDATE_KEYWORDS.items(): the list
\* matched_categories after the first n categories.
RECURSIVE matched_categories(_, _)
matched_categories(message, n) ==
    IF n = 0 THEN << >>
    ELSE LET message_lower == lower(message)
             keywords == UPDATE_KEYWORDS[n].keywords
         IN IF \E k \in 1..Len(keywords) : In(keywords[k], message_lower)
            THEN Append(matched_categories(message, n - 1), UPDATE_KEYWORDS[n].category)
            ELSE matched_categories(message, n - 1)

\* A category mapping without the overview fallback.
update_specs_no_fallback(categories) ==
    LET has(x) == \E i \in 1..Len(categories) : categories[i] = x
    IN (IF has("pricing") \/ has("discount")
           THEN {"PRICING_RULES_PROMPT", "CONDITIONS_PROMPT"} ELSE {})
       \cup (IF has("form") THEN {"FORM_SCHEMA_PROMPT"} ELSE {})
       \cup (IF has("validation")
              THEN {"VALIDATION_RULES_PROMPT", "CONDITIONS_PROMPT"} ELSE {})

\* "Map categories to specs": the set `specs` of _detect_update_specs.
update_specs(categories) ==
    LET has(x) == \E i \in 1..Len(categories) : categories[i] = x
        specs == (IF has("pricing") \/ has("discount")
                     THEN {"PRICING_RULES_PROMPT", "CONDITIONS_PROMPT"} ELSE {})
                 \cup (IF has("form") THEN {"FORM_SCHEMA_PROMPT"} ELSE {})
                 \cup (IF has("validation")
                        THEN {"VALIDATION_RULES_PROMPT", "CONDITIONS_PROMPT"} ELSE {})
    IN IF specs = {} THEN {"DSL_OVERVIEW_PROMPT"} ELSE specs

\* The orders in which a process may iterate a set of fragment texts: string
\* hashes are seeded per process, so any order of the four fragments that
\* can share a set (the overview is only ever alone in one).
HashOrders ==
    {<<"DSL_OVERVIEW_PROMPT">> \o [i \in 1..4 |-> ALL_DSL_SPECS[f[i] + 1]] :
        f \in {g \in [1..4 -> 1..4] : \A i, j \in 1..4 : i # j => g[i] # g[j]}}

\* list(specs): the elements of the set in the iteration order of the process.
list(order, specs) == SelectSeq(order, LAMBDA x : x \in specs)

\* PromptRetriever._detect_update_specs
detect_update_specs(order, message) ==
    list(order, update_specs(matched_categories(message, Len(UPDATE_KEYWORDS))))

\* A policy that gates the knowledge of create_event by keywords as well.
get_dsl_specs_all_gated(order, intent_id, message) ==
    IF intent_id \in {"create_event", "update_event"}
    THEN detect_update_specs(order, message)
    ELSE << >>

\* PromptRetriever._get_dsl_specs
get_dsl_specs(order, intent_id, message) ==
    IF intent_id = "create_event" THEN ALL_DSL_SPECS
    ELSE IF intent_id = "update_event" THEN detect_update_specs(order, message)
    ELSE << >>

\* The separator of compose, "\n\n---\n\n", as one token.
SEPARATOR == "---"

\* str.join: the fragments with the separator between neighbours.
RECURSIVE join(_, _)
join(sep, fragments) ==
    IF Len(fragments) = 0 THEN << >>
    ELSE IF Len(fragments) = 1 THEN <<fragments[1]>>
    ELSE <<fragments[1], sep>> \o join(sep, Tail(fragments))

\* A compose that puts the intent fragments in front of the base fragment.
compose_intent_first(order, intent_id, message) ==
    join(SEPARATOR, INTENT_PROMPTS(intent_id) \o <<BASE_PROMPT>>
                       \o get_dsl_specs(order, intent_id, message))

\* PromptRetriever.compose: the prompt as the sequence of its fragments and
\* separators.
compose(order, intent_id, message) ==
    join(SEPARATOR, <<BASE_PROMPT>> \o INTENT_PROMPTS(intent_id)
                       \o get_dsl_specs(order, intent_id, message))

\* len() of each text: the number of characters of the fragment the name is
\* bound to, and of the separator "\n\n---\n\n".
len_text(text) ==
    CASE text = "BASE_PROMPT" -> 830
      [] text = "CREATE_EVENT_PROMPT" -> 2639
      [] text = "UPDATE_EVENT_PROMPT" -> 475
      [] text = "SEARCH_EVENT_PROMPT" -> 167
      [] text = "DELETE_EVENT_PROMPT" -> 187
      [] text = "CALCULATE_PRICE_PROMPT" -> 555
      [] text = "PREVIEW_EVENT_PROMPT" -> 402
      [] text = "DSL_OVERVIEW_PROMPT" -> 1625
      [] text = "PRICING_RULES_PROMPT" -> 1792
      [] text = "VALIDATION_RULES_PROMPT" -> 1090
      [] text = "FORM_SCHEMA_PROMPT" -> 1875
      [] text = "CONDITIONS_PROMPT" -> 1485
      [] text = SEPARATOR -> 7

\* len(prompt) of a composed prompt.
RECURSIVE len(_)
len(prompt) ==
    IF Len(prompt) = 0 THEN 0 ELSE len_text(Head(prompt)) + len(Tail(prompt))

\* An estimate of one token per four characters, as the comment of
\* get_stats has it.
estimated_tokens_by_four(char_count) == char_count \div 4

\* `estimated_tokens = len(prompt) // 2`
estimated_tokens(char_count) == char_count \div 2

\* PromptRetriever.get_stats
get_stats(order, intent_id, message) ==
    LET prompt == compose(order, intent_id, message)
        fragments == <<BASE_PROMPT>> \o INTENT_PROMPTS(intent_id)
                         \o get_dsl_specs(order, intent_id, message)
    IN [intent_id |-> intent_id,
        fragment_count |-> Len(fragments),
        char_count |-> len(prompt),
        estimated_tokens |-> estimated_tokens(len(prompt))]

\* ================================================================ state
\* The two indexes share nothing: IntentClassifier only touches the
\* collection "intent_examples_gemini" and its own objects, DSLRetriever only
\* "dsl_knowledge" and its singleton.  A behaviour follows the life of one of
\* them, chosen by `kind`.
VARIABLES
    google_api_key,      \* settings.google_api_key of the running process is set
    kind,                \* the class the behaviour follows: "intent" or "dsl"
    catalog,             \* catalog version the running process imported
    collection,          \* ChromaDB server, collection COLLECTION_NAME(kind)
    nextUuid,            \* id the server gives the next collection it creates
    pc,                  \* caller -> position in its current operation
    obj,                 \* caller -> owner of the object (self) it operates on
    self_collection,     \* owner -> self.collection (a collection id, 0: none)
    built,               \* caller -> its session holds an IntentClassifier
    retriever_instance,  \* dsl_retriever._retriever_instance ("none" or owner)
    opEmbeds,            \* caller -> batch embedding calls of its current operation
    reset_from,          \* caller -> what its classifier could query when its
                         \* reset() in progress began (history)
    hash_order,          \* iteration order of a set of strings in this process
    composed,            \* the prompt composed in the current turn, if any
    earlier,             \* one call of compose of an earlier turn, if any is
                         \* remembered (history)
    core,                \* import of the module agent.core in this process
    RAG_AVAILABLE,       \* agent.core.RAG_AVAILABLE, once the module is imported
    agent,               \* the EventAgent of the session, if constructed
    reply,               \* log of the last call on the agent: outcome, what
                         \* raised, and for chat the message, the prompt of
                         \* the agent that answered and the calls made
    last                 \* log of the operation the last step ended, if any:
                         \* its outcome, its batch embedding calls and, for
                         \* classify, the number of neighbours the query found
                         \* (-1: no query answered), the query result and the
                         \* value returned

\* The prompt composer touches neither index: its state is followed by
\* ComposeSpec, and stays as it starts in the behaviours of Spec.
promptVars == <<hash_order, composed, earlier>>

indexVars == <<google_api_key, kind, catalog, collection, nextUuid, pc, obj, self_collection, built,
               retriever_instance, opEmbeds, reset_from, last>>

agentVars == <<core, RAG_AVAILABLE, agent, reply>>

vars == <<indexVars, promptVars, agentVars>>

NoResults == [ids |-> << >>, metadatas |-> << >>, documents |-> << >>, distances |-> << >>]

\* No reset in progress, or a reset of an object whose collection was gone.
NoIndex == [queried |-> FALSE, records |-> << >>]

LogEntry(op, c, outcome, embeds) ==
    [op |-> op, caller |-> c, outcome |-> outcome, embeds |-> embeds,
     message |-> 0, top_k |-> 0, found |-> -1, results |-> NoResults, result |-> default_result,
     before |-> NoIndex, output |-> << >>,
     query_embeds |-> 0, index_queries |-> 0, error |-> ""]

\* The log of a classify or search call: the query-embedding requests and
\* the index queries it issued and, when it raised, the call that raised.
QueryLog(op, c, outcome, query_embeds, index_queries, error) ==
    [LogEntry(op, c, outcome, 0) EXCEPT !.query_embeds = query_embeds,
                                        !.index_queries = index_queries,
                                        !.error = error]

\* What `last` holds after a step that ends no operation.
NoLog == LogEntry("none", "t1", "ok", 0)

NoCollection == [exists |-> FALSE, uuid |-> 0, records |-> << >>]

\* No prompt composed in the current turn.
NoStats == [intent_id |-> "", fragment_count |-> 0, char_count |-> 0, estimated_tokens |-> 0]

NoPrompt == [intent_id |-> "", message |-> << >>, prompt |-> << >>, stats |-> NoStats]

\* No process is running.
NoOrder == << >>

\* The empty dict {} of `self.last_intent: dict = {}`: every key is missing.
NoIntent == [intent_id |-> None, intent_name |-> None, confidence |-> 0,
             similar_examples |-> << >>]

\* No EventAgent: none was constructed, or its constructor raised.
NoAgent == [exists |-> FALSE, use_rag |-> FALSE, intent_classifier |-> None,
            prompt_retriever |-> None, prompt |-> << >>, messages |-> << >>,
            last_intent |-> NoIntent]

NoUtterance == [query |-> 0, text |-> << >>]

NoReply == [op |-> "none", outcome |-> "ok", raised_by |-> "", message |-> NoUtterance,
            prompt |-> << >>, classified |-> NoIntent, classifier_calls |-> 0,
            composer_calls |-> 0]

\* The agent is not followed in the behaviours of Spec and ComposeSpec.
AgentIdle ==
    /\ core = "not_imported"
    /\ RAG_AVAILABLE = FALSE
    /\ agent = NoAgent
    /\ reply = NoReply

Init ==
    /\ hash_order = ALL_DSL_SPECS
    /\ composed = NoPrompt
    /\ earlier = NoPrompt
    /\ AgentIdle
    /\ google_api_key \in BOOLEAN
    /\ kind \in Kinds
    /\ catalog \in CatalogVersions
    /\ collection = NoCollection
    /\ nextUuid = 1
    /\ pc = [c \in Callers |-> "idle"]
    /\ obj = [c \in Callers |-> c]
    /\ self_collection = [c \in Callers |-> 0]
    /\ built = [c \in Callers |-> FALSE]
    /\ retriever_instance = "none"
    /\ opEmbeds = [c \in Callers |-> 0]
    /\ reset_from = [c \in Callers |-> NoIndex]
    /\ last = NoLog

\* The collection a handle h refers to still exists on the server.
Live(h) == collection.exists /\ collection.uuid = h

\* A constructor that populates whatever count() reports.
NeedsPopulationAlways(count) == count >= 0

\* `if self.collection.count() == 0:` of both constructors.
NeedsPopulation(count) == count = 0

\* -------------------------------------------------------------- __init__
\* A constructor that does not look at the credential: a missing one shows
\* at the first embedding call.
ConstructDeferredCheck(c) ==
    /\ pc[c] = "idle"
    /\ IF kind = "intent" THEN ~built[c] ELSE retriever_instance = "none"
    /\ IF collection.exists
       THEN /\ self_collection' = [self_collection EXCEPT ![c] = collection.uuid]
            /\ UNCHANGED <<collection, nextUuid>>
       ELSE /\ nextUuid <= MaxUuid
            /\ collection' = [exists |-> TRUE, uuid |-> nextUuid, records |-> << >>]
            /\ nextUuid' = nextUuid + 1
            /\ self_collection' = [self_collection EXCEPT ![c] = nextUuid]
    /\ pc' = [pc EXCEPT ![c] = "ctor_count"]
    /\ obj' = [obj EXCEPT ![c] = c]
    /\ opEmbeds' = [opEmbeds EXCEPT ![c] = 0]
    /\ last' = NoLog
    /\ UNCHANGED <<google_api_key, kind, catalog, built, retriever_instance, reset_from>>
    /\ UNCHANGED <<promptVars, agentVars>>

\* IntentClassifier.__init__ (one per session, from EventAgent.__init__) and
\* DSLRetriever.__init__ reached through get_dsl_retriever() when the
\* singleton is None, up to and including get_or_create_collection.  The
\* first statement of both checks settings.google_api_key and raises
\* ValueError when it is not set.
Construct(c) ==
    /\ pc[c] = "idle"
    /\ IF kind = "intent" THEN ~built[c] ELSE retriever_instance = "none"
    /\ IF ~google_api_key
       THEN /\ last' = [LogEntry("construct", c, "error", 0)
                           EXCEPT !.error = "GOOGLE_API_KEY is required"]
            /\ UNCHANGED <<collection, nextUuid, self_collection, pc, obj, opEmbeds>>
       ELSE /\ IF collection.exists
               THEN /\ self_collection' = [self_collection EXCEPT ![c] = collection.uuid]
                    /\ UNCHANGED <<collection, nextUuid>>
               ELSE /\ nextUuid <= MaxUuid
                    /\ collection' = [exists |-> TRUE, uuid |-> nextUuid, records |-> << >>]
                    /\ nextUuid' = nextUuid + 1
                    /\ self_collection' = [self_collection EXCEPT ![c] = nextUuid]
            /\ pc' = [pc EXCEPT ![c] = "ctor_count"]
            /\ obj' = [obj EXCEPT ![c] = c]
            /\ opEmbeds' = [opEmbeds EXCEPT ![c] = 0]
            /\ last' = NoLog
    /\ UNCHANGED <<google_api_key, kind, catalog, built, retriever_instance, reset_from>>
    /\ UNCHANGED <<promptVars, agentVars>>

\* The constructor returns: the session keeps the classifier, or
\* get_dsl_retriever assigns the singleton.
Publish(c) ==
    /\ built' = IF kind = "intent" THEN [built EXCEPT ![c] = TRUE] ELSE built
    /\ retriever_instance' = IF kind = "dsl" THEN c ELSE retriever_instance

\* The operation of caller c ends with an exception.  A constructor that
\* raises leaves no object behind; a reset that raises leaves the object
\* with whatever self.collection it had reached.
Raise(c) ==
    LET ctor == pc[c] \in {"ctor_count", "ctor_init", "ctor_add"}
    IN /\ pc' = [pc EXCEPT ![c] = "idle"]
       /\ last' = [LogEntry(IF ctor THEN "construct" ELSE "reset", c, "error", opEmbeds'[c])
                       EXCEPT !.before = reset_from[c]]
       /\ reset_from' = [reset_from EXCEPT ![c] = NoIndex]
       /\ self_collection' = IF ctor THEN [self_collection EXCEPT ![c] = 0]
                             ELSE self_collection
       /\ UNCHANGED <<built, retriever_instance>>

\* The operation of caller c ends normally.
Return(c) ==
    LET ctor == pc[c] \in {"ctor_count", "ctor_init", "ctor_add"}
    IN /\ pc' = [pc EXCEPT ![c] = "idle"]
       /\ IF ctor THEN Publish(c) ELSE UNCHANGED <<built, retriever_instance>>
       /\ last' = [LogEntry(IF ctor THEN "construct" ELSE "reset", c, "ok", opEmbeds'[c])
                       EXCEPT !.before = reset_from[c]]
       /\ reset_from' = [reset_from EXCEPT ![c] = NoIndex]
       /\ UNCHANGED self_collection

\* `if self.collection.count() == 0: self._initialize_collection()`
CtorCount(c) ==
    /\ pc[c] = "ctor_count"
    /\ UNCHANGED opEmbeds
    /\ IF ~Live(self_collection[c])
       THEN Raise(c)
       ELSE IF NeedsPopulation(Len(collection.records))
       THEN /\ pc' = [pc EXCEPT ![c] = "ctor_init"]
            /\ last' = NoLog
            /\ UNCHANGED <<self_collection, built, retriever_instance, reset_from>>
       ELSE Return(c)
    /\ UNCHANGED <<google_api_key, kind, catalog, collection, nextUuid, obj>>
    /\ UNCHANGED <<promptVars, agentVars>>

\* ------------------------------------------------ _initialize_collection
\* A reset() that re-creates the collection and returns without populating
\* it; constructors populate as they do.
InitEmbedCtorOnly(c) ==
    /\ pc[c] \in {"ctor_init", "reset_init"}
    /\ IF pc[c] = "reset_init"
       THEN /\ UNCHANGED opEmbeds
            /\ Return(c)
       ELSE /\ opEmbeds' = [opEmbeds EXCEPT ![c] = @ + 1]
            /\ pc' = [pc EXCEPT ![c] = "ctor_add"]
            /\ last' = NoLog
            /\ UNCHANGED <<self_collection, built, retriever_instance, reset_from>>
    /\ UNCHANGED <<google_api_key, kind, catalog, collection, nextUuid, obj>>
    /\ UNCHANGED <<promptVars, agentVars>>

\* First half of _initialize_collection: build the lists from the catalog and
\* call the batch embedding.  DSLRetriever returns early on an empty index.
InitEmbed(c) ==
    /\ pc[c] \in {"ctor_init", "reset_init"}
    /\ IF kind = "dsl" /\ Len(IndexData(kind, catalog)) = 0
       THEN /\ UNCHANGED opEmbeds
            /\ Return(c)
       ELSE /\ opEmbeds' = [opEmbeds EXCEPT ![c] = @ + 1]
            /\ pc' = [pc EXCEPT ![c] = IF pc[c] = "ctor_init" THEN "ctor_add" ELSE "reset_add"]
            /\ last' = NoLog
            /\ UNCHANGED <<self_collection, built, retriever_instance, reset_from>>
    /\ UNCHANGED <<google_api_key, kind, catalog, collection, nextUuid, obj>>
    /\ UNCHANGED <<promptVars, agentVars>>

\* The batch embedding call raises (authentication, quota, network).
InitEmbedFail(c) ==
    /\ pc[c] \in {"ctor_init", "reset_init"}
    /\ ~(kind = "dsl" /\ Len(IndexData(kind, catalog)) = 0)
    /\ opEmbeds' = [opEmbeds EXCEPT ![c] = @ + 1]
    /\ Raise(c)
    /\ UNCHANGED <<google_api_key, kind, catalog, collection, nextUuid, obj>>
    /\ UNCHANGED <<promptVars, agentVars>>

\* The records of `new` whose id the collection does not hold yet, in order.
RECURSIVE FreshRecords(_, _, _)
FreshRecords(records, new, n) ==
    IF n = 0 THEN << >>
    ELSE LET rest == FreshRecords(records, new, n - 1)
         IN IF \E i \in 1..Len(records) : records[i].id = new[n].id
            THEN rest ELSE Append(rest, new[n])

\* Second half: collection.add(ids, embeddings, metadatas, documents).  On
\* ids the collection already holds the server either rejects the whole
\* call or skips those ids, depending on its version.
Add(c) ==
    LET new == NewRecords(kind, catalog)
        fresh == FreshRecords(collection.records, new, Len(new))
    IN /\ pc[c] \in {"ctor_add", "reset_add"}
       /\ UNCHANGED opEmbeds
       /\ \/ /\ ~Live(self_collection[obj[c]])
             /\ Raise(c)
             /\ UNCHANGED collection
          \/ /\ Live(self_collection[obj[c]])
             /\ Len(fresh) < Len(new)
             /\ Raise(c)
             /\ UNCHANGED collection
          \/ /\ Live(self_collection[obj[c]])
             /\ collection' = [collection EXCEPT !.records = @ \o fresh]
             /\ Return(c)
       /\ UNCHANGED <<google_api_key, kind, catalog, nextUuid, obj>>
       /\ UNCHANGED <<promptVars, agentVars>>

\* ----------------------------------------------------------------- reset
\* reset(), first call: self.client.delete_collection(COLLECTION_NAME).  The
\* server raises when no such collection exists; DSLRetriever.reset swallows
\* that, IntentClassifier.reset lets it propagate.
ResetDelete(c) ==
    /\ pc[c] = "idle"
    /\ IF kind = "intent" THEN built[c] ELSE retriever_instance # "none"
    /\ obj' = [obj EXCEPT ![c] = IF kind = "intent" THEN c ELSE retriever_instance]
    /\ opEmbeds' = [opEmbeds EXCEPT ![c] = 0]
    /\ IF collection.exists
       THEN /\ collection' = NoCollection
            /\ pc' = [pc EXCEPT ![c] = "reset_create"]
            /\ reset_from' = [reset_from EXCEPT ![c] =
                                 IF kind = "intent" /\ Live(self_collection[c])
                                 THEN [queried |-> TRUE, records |-> collection.records]
                                 ELSE NoIndex]
            /\ last' = NoLog
       ELSE /\ UNCHANGED <<collection, reset_from>>
            /\ IF kind = "dsl"
               THEN /\ pc' = [pc EXCEPT ![c] = "reset_create"]
                    /\ last' = NoLog
               ELSE /\ pc' = pc
                    /\ last' = LogEntry("reset", c, "error", 0)
    /\ UNCHANGED <<google_api_key, kind, catalog, nextUuid, self_collection, built, retriever_instance>>
    /\ UNCHANGED <<promptVars, agentVars>>

\* reset(), second call: self.collection = self.client.create_collection(...),
\* which raises when a collection of that name exists again.
ResetCreate(c) ==
    /\ pc[c] = "reset_create"
    /\ UNCHANGED opEmbeds
    /\ IF collection.exists
       THEN /\ Raise(c)
            /\ UNCHANGED <<collection, nextUuid>>
       ELSE /\ nextUuid <= MaxUuid
            /\ collection' = [exists |-> TRUE, uuid |-> nextUuid, records |-> << >>]
            /\ nextUuid' = nextUuid + 1
            /\ self_collection' = [self_collection EXCEPT ![obj[c]] = nextUuid]
            /\ pc' = [pc EXCEPT ![c] = "reset_init"]
            /\ last' = NoLog
            /\ UNCHANGED <<built, retriever_instance, reset_from>>
    /\ UNCHANGED <<google_api_key, kind, catalog, obj>>
    /\ UNCHANGED <<promptVars, agentVars>>

\* -------------------------------------------------------------- classify
\* A classify whose query consumes the index: the records are gone after it.
ClassifyConsuming(c, message, top_k) ==
    LET records == collection.records
        q == EmbedQuery(message)
    IN /\ kind = "intent"
       /\ last.op \notin {"classify", "search"}
       /\ pc[c] = "idle"
       /\ built[c]
       /\ Live(self_collection[c])
       /\ \E f \in Rankings(records, q, top_k) :
             LET results == QueryResult(records, q, f)
             IN last' = [QueryLog("classify", c, "ok", 1, 1, "")
                            EXCEPT !.message = message, !.top_k = top_k,
                                   !.found = Len(results.metadatas),
                                   !.results = results,
                                   !.result = ClassifyResult(catalog, results)]
       /\ collection' = [collection EXCEPT !.records = << >>]
       /\ UNCHANGED <<google_api_key, kind, catalog, nextUuid, pc, obj, self_collection,
                      built, retriever_instance, opEmbeds, reset_from>>
       /\ UNCHANGED <<promptVars, agentVars>>

\* classify(message, top_k) of the session's classifier: embed the query,
\* query the collection, vote.  A query on a deleted collection raises.
Classify(c, message, top_k) ==
    LET records == collection.records
        q == EmbedQuery(message)
    IN /\ kind = "intent"
       /\ last.op \notin {"classify", "search"}
       /\ pc[c] = "idle"
       /\ built[c]
       /\ IF ~Live(self_collection[c])
          THEN last' = QueryLog("classify", c, "error", 1, 1, "collection.query")
          ELSE \E f \in Rankings(records, q, top_k) :
                  LET results == QueryResult(records, q, f)
                  IN last' = [QueryLog("classify", c, "ok", 1, 1, "")
                                 EXCEPT !.message = message, !.top_k = top_k,
                                        !.found = Len(results.metadatas),
                                        !.results = results,
                                        !.result = ClassifyResult(catalog, results)]
       /\ UNCHANGED <<google_api_key, kind, catalog, collection, nextUuid, pc, obj, self_collection,
                      built, retriever_instance, opEmbeds, reset_from>>
       /\ UNCHANGED <<promptVars, agentVars>>

\* A classify that asks for the embedding a second time when the first
\* request raised, and raises when the second does.
ClassifyEmbedFailRetried(c) ==
    /\ kind = "intent"
    /\ last.op \notin {"classify", "search"}
    /\ pc[c] = "idle"
    /\ built[c]
    /\ last' = QueryLog("classify", c, "error", 2, 0, "embed_query")
    /\ UNCHANGED <<google_api_key, kind, catalog, collection, nextUuid, pc, obj, self_collection,
                   built, retriever_instance, opEmbeds, reset_from>>
    /\ UNCHANGED <<promptVars, agentVars>>

\* embed_query raises inside classify, whatever the message: the error
\* propagates to the caller.
ClassifyEmbedFail(c) ==
    /\ kind = "intent"
    /\ last.op \notin {"classify", "search"}
    /\ pc[c] = "idle"
    /\ built[c]
    /\ last' = QueryLog("classify", c, "error", 1, 0, "embed_query")
    /\ UNCHANGED <<google_api_key, kind, catalog, collection, nextUuid, pc, obj, self_collection,
                   built, retriever_instance, opEmbeds, reset_from>>
    /\ UNCHANGED <<promptVars, agentVars>>

\* ---------------------------------------------------------------- search
\* get_dsl_retriever().search(query, top_k) on the singleton: embed the
\* query, query the collection, load the content of each hit.  A query on a
\* deleted collection raises.
Search(c, query, top_k) ==
    LET records == collection.records
        q == EmbedDslQuery(query)
    IN /\ kind = "dsl"
       /\ last.op \notin {"classify", "search"}
       /\ pc[c] = "idle"
       /\ retriever_instance # "none"
       /\ IF ~Live(self_collection[retriever_instance])
          THEN last' = QueryLog("search", c, "error", 1, 1, "collection.query")
          ELSE \E f \in Rankings(records, q, top_k) :
                  LET results == QueryResult(records, q, f)
                  IN last' = [QueryLog("search", c, "ok", 1, 1, "")
                                 EXCEPT !.message = query, !.top_k = top_k,
                                        !.found = Len(results.metadatas),
                                        !.results = results,
                                        !.output = SearchOutput(catalog, results,
                                                                Len(results.metadatas))]
       /\ UNCHANGED <<google_api_key, kind, catalog, collection, nextUuid, pc, obj, self_collection,
                      built, retriever_instance, opEmbeds, reset_from>>
       /\ UNCHANGED <<promptVars, agentVars>>

\* _embed_query raises inside search, whatever the query: the error
\* propagates to the caller.
SearchEmbedFail(c) ==
    /\ kind = "dsl"
    /\ last.op \notin {"classify", "search"}
    /\ pc[c] = "idle"
    /\ retriever_instance # "none"
    /\ last' = QueryLog("search", c, "error", 1, 0, "embed_query")
    /\ UNCHANGED <<google_api_key, kind, catalog, collection, nextUuid, pc, obj, self_collection,
                   built, retriever_instance, opEmbeds, reset_from>>
    /\ UNCHANGED <<promptVars, agentVars>>

\* The caller has taken the answer of its query; `last` holds one outcome,
\* and the next query is issued once the previous answer has been taken.
QueryReturn ==
    /\ last.op \in {"classify", "search"}
    /\ last' = NoLog
    /\ UNCHANGED <<google_api_key, kind, catalog, collection, nextUuid, pc, obj, self_collection,
                   built, retriever_instance, opEmbeds, reset_from>>
    /\ UNCHANGED <<promptVars, agentVars>>

\* --------------------------------------------------------------- restart
\* The process is stopped and started again, possibly from an edited
\* catalog; every object of the old process is gone, the ChromaDB server and
\* its collections stay.
Restart(v) ==
    /\ catalog' = v
    /\ pc' = [c \in Callers |-> "idle"]
    /\ obj' = [c \in Callers |-> c]
    /\ self_collection' = [c \in Callers |-> 0]
    /\ built' = [c \in Callers |-> FALSE]
    /\ retriever_instance' = "none"
    /\ opEmbeds' = [c \in Callers |-> 0]
    /\ reset_from' = [c \in Callers |-> NoIndex]
    /\ last' = LogEntry("restart", "t1", "ok", 0)
    /\ UNCHANGED <<kind, collection, nextUuid>>
    /\ google_api_key' \in BOOLEAN
    /\ UNCHANGED <<promptVars, agentVars>>

Next ==
    \/ \E c \in Callers : Construct(c)
    \/ \E c \in Callers : CtorCount(c)
    \/ \E c \in Callers : InitEmbed(c)
    \/ \E c \in Callers : InitEmbedFail(c)
    \/ \E c \in Callers : Add(c)
    \/ \E c \in Callers : ResetDelete(c)
    \/ \E c \in Callers : ResetCreate(c)
    \/ \E c \in Callers, m \in Messages, n \in 1..MaxTopK : Classify(c, m, n)
    \/ \E c \in Callers : ClassifyEmbedFail(c)
    \/ \E c \in Callers, m \in Messages, n \in 1..MaxTopK : Search(c, m, n)
    \/ \E c \in Callers : SearchEmbedFail(c)
    \/ QueryReturn
    \/ \E v \in CatalogVersions : Restart(v)

Spec == Init /\ [][Next]_vars

\* ====================================================== prompt composer
\* A process that composes prompts, one per turn.
ComposeInit ==
    /\ hash_order \in HashOrders
    /\ composed = NoPrompt
    /\ earlier = NoPrompt
    /\ AgentIdle
    /\ google_api_key = TRUE
    /\ kind = "intent"
    /\ catalog = 1
    /\ collection = NoCollection
    /\ nextUuid = 1
    /\ pc = [c \in Callers |-> "idle"]
    /\ obj = [c \in Callers |-> c]
    /\ self_collection = [c \in Callers |-> 0]
    /\ built = [c \in Callers |-> FALSE]
    /\ retriever_instance = "none"
    /\ opEmbeds = [c \in Callers |-> 0]
    /\ reset_from = [c \in Callers |-> NoIndex]
    /\ last = NoLog

\* What a turn gets from the composer: compose(intent_id, message), then
\* get_stats(intent_id, message).
Prompt(intent_id, message) ==
    [intent_id |-> intent_id, message |-> message,
     prompt |-> compose(hash_order, intent_id, message),
     stats |-> get_stats(hash_order, intent_id, message)]

\* prompt_retriever.compose(intent_id, message) and get_stats in a turn.
Compose(intent_id, message) ==
    /\ hash_order # NoOrder
    /\ composed = NoPrompt
    /\ earlier = NoPrompt
    /\ composed' = Prompt(intent_id, message)
    /\ UNCHANGED <<hash_order, earlier>>
    /\ UNCHANGED <<indexVars, agentVars>>

\* The call that is remembered is made again, with the same arguments.
ComposeAgain ==
    /\ hash_order # NoOrder
    /\ composed = NoPrompt
    /\ earlier # NoPrompt
    /\ composed' = Prompt(earlier.intent_id, earlier.message)
    /\ UNCHANGED <<hash_order, earlier>>
    /\ UNCHANGED <<indexVars, agentVars>>

\* The turn ends: the composed prompt is not kept for the next turn.  The
\* history remembers the call or not; a remembered call is forgotten at the
\* end of the turn that repeated it.
TurnEnd ==
    /\ composed # NoPrompt
    /\ composed' = NoPrompt
    /\ earlier' \in IF earlier = NoPrompt THEN {NoPrompt, composed} ELSE {NoPrompt}
    /\ UNCHANGED hash_order
    /\ UNCHANGED <<indexVars, agentVars>>

\* The process is stopped between two turns.
ProcessStop ==
    /\ hash_order # NoOrder
    /\ composed = NoPrompt
    /\ hash_order' = NoOrder
    /\ UNCHANGED <<composed, earlier>>
    /\ UNCHANGED <<indexVars, agentVars>>

\* The process is started again: a new hash seed.
ProcessStart(order) ==
    /\ hash_order = NoOrder
    /\ hash_order' = order
    /\ UNCHANGED <<composed, earlier>>
    /\ UNCHANGED <<indexVars, agentVars>>

\* Between two turns a prompt is composed or the process is stopped; in a
\* turn the only step is its end.
ComposeNext ==
    \/ /\ composed = NoPrompt
       /\ earlier = NoPrompt
       /\ \E intent_id \in ComposeIntents, message \in ComposeMessages :
              Compose(intent_id, message)
    \/ ComposeAgain
    \/ TurnEnd
    \/ ProcessStop
    \/ \E order \in HashOrders : ProcessStart(order)

ComposeSpec == ComposeInit /\ [][ComposeNext]_vars

\* ================================================================ agent
\* One Streamlit session and its EventAgent, in a process whose intent
\* collection is as some earlier population or failed reset left it.

\* agent.prompts.SYSTEM_PROMPT, the static default prompt.
SYSTEM_PROMPT == <<"SYSTEM_PROMPT">>

\* What the user says: one string, which the embedder sees as a text of
\* Messages and the keyword scan as its characters.
Utterances ==
    { [query |-> 1, text |-> << >>],
      [query |-> 2, text |-> <<"zhe">>],
      [query |-> 6, text |-> <<"f", "e", "e">>] }

AgentInit ==
    /\ hash_order = ALL_DSL_SPECS
    /\ composed = NoPrompt
    /\ earlier = NoPrompt
    /\ AgentIdle
    /\ google_api_key \in BOOLEAN
    /\ kind = "intent"
    /\ catalog \in {1, 2}
    /\ collection \in {[exists |-> TRUE, uuid |-> 1, records |-> records] :
                          records \in {<< >>, NewRecords("intent", catalog)}}
    /\ nextUuid = 2
    /\ pc = [c \in Callers |-> "idle"]
    /\ obj = [c \in Callers |-> c]
    /\ self_collection = [c \in Callers |-> 0]
    /\ built = [c \in Callers |-> FALSE]
    /\ retriever_instance = "none"
    /\ opEmbeds = [c \in Callers |-> 0]
    /\ reset_from = [c \in Callers |-> NoIndex]
    /\ last = NoLog

\* app.py imports agent.core.  Line 25 imports tools.events, which imports
\* tools.dsl_search, which imports rag.dsl_retriever and so runs
\* rag/__init__.py and both rag modules: when the rag package cannot be
\* imported the exception leaves line 25, before the try of lines 28-34; when
\* it can, lines 29-30 find the modules imported.
ImportCore(rag_importable) ==
    /\ core = "not_imported"
    /\ IF rag_importable
       THEN /\ core' = "imported"
            /\ RAG_AVAILABLE' = TRUE
            /\ reply' = [NoReply EXCEPT !.op = "import"]
       ELSE /\ core' = "import_error"
            /\ RAG_AVAILABLE' = FALSE
            /\ reply' = [NoReply EXCEPT !.op = "import", !.outcome = "error",
                                        !.raised_by = "tools.events"]
    /\ UNCHANGED agent
    /\ UNCHANGED <<indexVars, promptVars>>

\* An __init__ whose except clause leaves use_rag as it was.
init_rag_flag_kept(use_rag, classifier_ok) ==
    IF use_rag /\ classifier_ok
    THEN [use_rag |-> TRUE, intent_classifier |-> "IntentClassifier",
          prompt_retriever |-> "PromptRetriever"]
    ELSE [use_rag |-> use_rag, intent_classifier |-> None, prompt_retriever |-> None]

\* EventAgent.__init__, lines 66-80: what use_rag, intent_classifier and
\* prompt_retriever are after the try, given the value of
\* `use_rag and RAG_AVAILABLE` and whether IntentClassifier() returned.
\* PromptRetriever has no __init__ of its own.
init_rag(use_rag, classifier_ok) ==
    IF use_rag /\ classifier_ok
    THEN [use_rag |-> TRUE, intent_classifier |-> "IntentClassifier",
          prompt_retriever |-> "PromptRetriever"]
    ELSE [use_rag |-> FALSE, intent_classifier |-> None, prompt_retriever |-> None]

\* init_agent() of the session: EventAgent(use_rag).  ChatAnthropic(...) or
\* create_react_agent(...) may raise, and then there is no agent;
\* IntentClassifier() raises without the credential, and may raise with it
\* (server unreachable, embedding or add failure): __init__ catches that, and
\* the log names what was caught.
NewEventAgent(use_rag, llm_ok, classifier_ok) ==
    LET rag == init_rag(use_rag /\ RAG_AVAILABLE, classifier_ok /\ google_api_key)
    IN /\ core = "imported"
       /\ ~agent.exists
       /\ IF llm_ok
          THEN /\ agent' = [exists |-> TRUE, use_rag |-> rag.use_rag,
                            intent_classifier |-> rag.intent_classifier,
                            prompt_retriever |-> rag.prompt_retriever,
                            prompt |-> SYSTEM_PROMPT, messages |-> << >>,
                            last_intent |-> NoIntent]
               /\ reply' = [NoReply EXCEPT !.op = "construct",
                                           !.raised_by =
                                               IF use_rag /\ RAG_AVAILABLE
                                                  /\ ~(classifier_ok /\ google_api_key)
                                               THEN "IntentClassifier" ELSE ""]
          ELSE /\ agent' = NoAgent
               /\ reply' = [NoReply EXCEPT !.op = "construct", !.outcome = "error",
                                           !.raised_by = "llm"]
       /\ UNCHANGED <<core, RAG_AVAILABLE>>
       /\ UNCHANGED <<indexVars, promptVars>>

\* What self.intent_classifier.classify(message) can return, top_k = 3.
classify(message) ==
    LET q == EmbedQuery(message)
    IN {ClassifyResult(catalog, QueryResult(collection.records, q, f)) :
            f \in Rankings(collection.records, q, 3)}

\* An agent that composes its prompt in the first turn and keeps it.
update_prompt_once(a, result, message) ==
    [a EXCEPT !.last_intent = result,
              !.prompt = IF a.prompt = SYSTEM_PROMPT
                         THEN compose(hash_order, result.intent_id, message)
                         ELSE a.prompt]

\* EventAgent._update_prompt_for_intent once classify returned `result`.
update_prompt_for_intent(a, result, message) ==
    [a EXCEPT !.last_intent = result,
              !.prompt = compose(hash_order, result.intent_id, message)]

HumanMessage(content) == [type |-> "HumanMessage", content |-> content]

\* The reply of the agent loop, whatever its text.
AIMessage == [type |-> "AIMessage", content |-> 0]

\* EventAgent.chat(user_message).  With use_rag the classifier and the
\* composer are called first; classify may raise.  Then the message is
\* appended, the agent is invoked, which may raise, and its reply appended.
Chat(u, classify_ok, invoke_ok) ==
    LET turn == [NoReply EXCEPT !.op = "chat", !.message = u]
    IN /\ agent.exists
       /\ Len(agent.messages) + 2 <= MaxHistory
       /\ IF agent.use_rag /\ agent.intent_classifier = None
          THEN /\ reply' = [turn EXCEPT !.outcome = "error", !.raised_by = "AttributeError"]
               /\ UNCHANGED agent
          ELSE IF agent.use_rag /\ ~classify_ok
          THEN /\ reply' = [turn EXCEPT !.outcome = "error", !.raised_by = "classify",
                                        !.classifier_calls = 1]
               /\ UNCHANGED agent
          ELSE \E result \in IF agent.use_rag THEN classify(u.query) ELSE {NoIntent} :
                  LET prompted == IF agent.use_rag
                                  THEN update_prompt_for_intent(agent, result, u.text)
                                  ELSE agent
                      asked == [prompted EXCEPT !.messages = Append(@, HumanMessage(u.query))]
                      calls == [turn EXCEPT !.classified = result,
                                            !.classifier_calls = IF agent.use_rag THEN 1 ELSE 0,
                                            !.composer_calls = IF agent.use_rag THEN 2 ELSE 0]
                  IN IF invoke_ok
                     THEN /\ agent' = [asked EXCEPT !.messages = Append(@, AIMessage)]
                          /\ reply' = [calls EXCEPT !.prompt = asked.prompt]
                     ELSE /\ agent' = asked
                          /\ reply' = [calls EXCEPT !.outcome = "error",
                                                    !.raised_by = "invoke",
                                                    !.prompt = asked.prompt]
       /\ UNCHANGED <<core, RAG_AVAILABLE>>
       /\ UNCHANGED <<indexVars, promptVars>>

\* EventAgent.clear_history
ClearHistory ==
    /\ agent.exists
    /\ agent' = [agent EXCEPT !.messages = << >>]
    /\ reply' = [NoReply EXCEPT !.op = "clear_history"]
    /\ UNCHANGED <<core, RAG_AVAILABLE>>
    /\ UNCHANGED <<indexVars, promptVars>>

\* EventAgent.get_history
get_history(messages) ==
    [i \in 1..Len(messages) |->
        <<IF messages[i].type = "HumanMessage" THEN "user" ELSE "assistant",
          messages[i].content>>]

\* EventAgent.get_last_intent
get_last_intent(a) == a.last_intent

AgentNext ==
    \/ \E rag_importable \in BOOLEAN : ImportCore(rag_importable)
    \/ \E use_rag, llm_ok, classifier_ok \in BOOLEAN :
          NewEventAgent(use_rag, llm_ok, classifier_ok)
    \/ \E u \in Utterances, classify_ok, invoke_ok \in BOOLEAN : Chat(u, classify_ok, invoke_ok)
    \/ ClearHistory

AgentSpec == AgentInit /\ [][AgentNext]_vars

\* =============================================================== claims

\* The (intent, example position) pairs of the current catalog.
CatalogPairs ==
    UNION {{<<i, j>> : j \in 1..Len(INTENT_DEFINITIONS(catalog)[i].examples)} :
              i \in 1..Len(INTENT_DEFINITIONS(catalog))}

\* `records` is the index of the current catalog: one record per
\* (intent, example) pair, with id <intent_id>_<position> and the owning
\* intent in its metadata; one record per DSL_INDEX entry.
IsCatalogIndex(records) ==
    IF kind = "intent"
    THEN /\ Len(records) = Cardinality(CatalogPairs)
         /\ \A p \in CatalogPairs :
               LET intent == INTENT_DEFINITIONS(catalog)[p[1]]
               IN \E r \in 1..Len(records) :
                     /\ records[r].id = <<intent.id, p[2] - 1>>
                     /\ records[r].metadata.intent_id = intent.id
                     /\ records[r].document = intent.examples[p[2]]
    ELSE /\ Len(records) = Len(DSL_INDEX(catalog))
         /\ \A i \in 1..Len(DSL_INDEX(catalog)) :
               \E r \in 1..Len(records) : records[r].id = DSL_INDEX(catalog)[i].id

\* C1: a constructor that finds at least one record in its collection makes
\* no batch embedding call, leaves the collection as it is and returns; and
\* a collection that holds records changes only by the delete_collection of
\* a reset().
C1_PopulatedIndexLeftAlone ==
    [][ /\ \A c \in Callers :
              ( /\ pc[c] = "ctor_count"
                /\ pc'[c] # "ctor_count"
                /\ last'.op # "restart"
                /\ Live(self_collection[c])
                /\ Len(collection.records) > 0 )
              => ( /\ opEmbeds'[c] = 0
                   /\ collection' = collection
                   /\ pc'[c] = "idle"
                   /\ last' = LogEntry("construct", c, "ok", 0) )
        /\ (Len(collection.records) > 0 /\ collection' # collection)
              => \E c \in Callers : pc[c] = "idle" /\ pc'[c] = "reset_create"
      ]_vars

\* C1 witness: a constructor has returned without embedding on a collection
\* whose records are not those of the catalog the process runs with.
C1_Witness ==
    /\ last.op = "construct"
    /\ last.outcome = "ok"
    /\ last.embeds = 0
    /\ Len(collection.records) > 0
    /\ ~IsCatalogIndex(collection.records)

\* C2: when reset() has returned, the index holds exactly the records of
\* the current catalog and nothing else.
C2_ResetRebuildsFromCatalog ==
    (last.op = "reset" /\ last.outcome = "ok") => IsCatalogIndex(collection.records)

\* C2 witness: a reset() has returned after embedding and inserting records.
C2_Witness ==
    /\ last.op = "reset"
    /\ last.outcome = "ok"
    /\ last.embeds = 1
    /\ Len(collection.records) > 0

\* C3: no two callers are inside the population routine of a constructor at
\* the same time.
C3_PopulationMutex ==
    \A a, b \in Callers :
        a # b => ~(pc[a] \in {"ctor_init", "ctor_add"} /\ pc[b] \in {"ctor_init", "ctor_add"})

\* ------------------------------------------------- classify, restated
\* The quantities the classify claims speak of, computed from the logged
\* query result alone.
Neighbours == 1..Len(last.results.metadatas)
NeighbourIntents == {last.results.metadatas[i].intent_id : i \in Neighbours}
NeighbourSimilarity(i) == Similarity(last.results.distances[i])

RECURSIVE GroupTotal(_, _)
GroupTotal(x, n) ==
    IF n = 0 THEN RZero
    ELSE IF last.results.metadatas[n].intent_id = x
         THEN RAdd(GroupTotal(x, n - 1), NeighbourSimilarity(n))
         ELSE GroupTotal(x, n - 1)

TotalOf(x) == GroupTotal(x, Len(last.results.metadatas))
CountOf(x) == Cardinality({i \in Neighbours : last.results.metadatas[i].intent_id = x})
MeanOf(x) == RDivInt(TotalOf(x), CountOf(x))

RECURSIVE GroupExamples(_, _)
GroupExamples(x, n) ==
    IF n = 0 THEN << >>
    ELSE IF last.results.metadatas[n].intent_id = x
         THEN Append(GroupExamples(x, n - 1),
                     [text |-> last.results.documents[n],
                      similarity |-> Round3(NeighbourSimilarity(n))])
         ELSE GroupExamples(x, n - 1)

\* classify has returned a vote over at least one neighbour.
Voted == last.op = "classify" /\ last.outcome = "ok" /\ last.found > 0

Winner == last.result.intent_id

\* Position of an intent id in lexicographic order.
LexRank(x) ==
    CASE x = "create_event" -> 1
      [] x = "general" -> 2
      [] OTHER -> 3

\* C4: classify(e) for an example e of an intent of the catalog, on the index
\* of that catalog, returns that intent with confidence above 0.
C4_OwnExampleClassified ==
    ( /\ last.op = "classify"
      /\ last.outcome = "ok"
      /\ collection.records = NewRecords("intent", catalog) )
    => \A p \in CatalogPairs :
          LET intent == INTENT_DEFINITIONS(catalog)[p[1]]
          IN intent.examples[p[2]] = last.message
                => (Winner = intent.id /\ last.result.confidence > 0)

\* C5: the intent classify returns is among the neighbours' intents and no
\* other intent's neighbours have a strictly larger total similarity.
C5_WinnerHasGreatestTotal ==
    Voted => /\ Winner \in NeighbourIntents
             /\ \A x \in NeighbourIntents : ~RLess(TotalOf(Winner), TotalOf(x))

\* C5 witness: the winner is neither the nearest neighbour's intent nor the
\* intent of greatest mean similarity.
C5_Witness ==
    /\ Voted
    /\ Winner # last.results.metadatas[1].intent_id
    /\ \E x \in NeighbourIntents : RLess(MeanOf(Winner), MeanOf(x))

\* C6: the confidence is the winner's total similarity divided by the number
\* of the winner's neighbours, rounded to 3 decimals.
C6_ConfidenceIsWinnersMean ==
    Voted => last.result.confidence = Round3(RDivInt(TotalOf(Winner), CountOf(Winner)))

\* C6 witness: neighbours of two intents were found, and the mean over all
\* of them rounds to another value than the confidence returned.
C6_Witness ==
    /\ Voted
    /\ Cardinality(NeighbourIntents) > 1
    /\ \E x \in NeighbourIntents :
          /\ x # Winner
          /\ last.result.confidence #
                Round3(RDivInt(RAdd(TotalOf(Winner), TotalOf(x)), CountOf(Winner) + CountOf(x)))

\* C7: with at least one neighbour the rounded confidence is in (0, 1]; it
\* is 0.0 only when no neighbour was found.
C7_ConfidenceInRange ==
    (last.op = "classify" /\ last.outcome = "ok")
        => /\ last.found > 0 => (0 < last.result.confidence /\ last.result.confidence <= 1000)
           /\ last.result.confidence = 0 => last.found = 0

\* C8: a query that finds no neighbour makes classify return the default
\* result: "general", confidence 0.0, no supporting example.
C8_NoNeighbourDefault ==
    (last.op = "classify" /\ last.found = 0)
        => /\ last.outcome = "ok"
           /\ last.result.intent_id = "general"
           /\ last.result.confidence = 0
           /\ last.result.similar_examples = << >>

\* C8 witness: classify ran on an existing collection without records.
C8_Witness ==
    /\ last.op = "classify"
    /\ last.found = 0
    /\ collection.exists
    /\ Len(collection.records) = 0

\* C9: among intents of equal total similarity the lexicographically
\* smallest id wins.
C9_TieLexSmallest ==
    Voted => \A x \in NeighbourIntents :
                (TotalOf(x) = TotalOf(Winner)) => LexRank(Winner) <= LexRank(x)

\* C10: the supporting examples are the winner's neighbours, all of them and
\* no other, each with its own similarity (rounded to 3 decimals), in
\* non-increasing order of similarity.
C10_ExamplesOfWinnerSorted ==
    Voted => /\ last.result.similar_examples = GroupExamples(Winner, Len(last.results.metadatas))
             /\ \A i, j \in 1..Len(last.result.similar_examples) :
                   i < j => last.result.similar_examples[i].similarity
                               >= last.result.similar_examples[j].similarity

\* C10 witness: the winner has two supporting examples of different
\* similarity while a neighbour of another intent was found as well.
C10_Witness ==
    /\ Voted
    /\ Cardinality(NeighbourIntents) > 1
    /\ Len(last.result.similar_examples) > 1
    /\ last.result.similar_examples[1].similarity # last.result.similar_examples[2].similarity

\* ------------------------------------------------- reset round trip
\* The example texts of the current catalog.
CatalogExamples ==
    {INTENT_DEFINITIONS(catalog)[p[1]].examples[p[2]] : p \in CatalogPairs}

\* The (intent id, confidence) pairs classify(message, top_k) can return on
\* an index holding `records`, one per ranking the index may answer with.
ClassifyOutcomes(records, message, top_k) ==
    LET q == EmbedQuery(message)
    IN {LET r == ClassifyResult(catalog, QueryResult(records, q, f))
        IN <<r.intent_id, r.confidence>> : f \in Rankings(records, q, top_k)}

\* A reset() has returned to a caller whose classifier could be queried
\* before it and can be queried now.
ResetRoundTrip ==
    /\ kind = "intent"
    /\ last.op = "reset"
    /\ last.outcome = "ok"
    /\ last.before.queried
    /\ Live(self_collection[last.caller])

\* C11 as stated: for every catalog example e, classify(e) before a reset()
\* and classify(e) after it return the same intent id and the same
\* confidence, whatever records the index held when reset() was called.
C11_ResetKeepsClassification ==
    (ResetRoundTrip /\ Len(last.before.records) > 0) =>
        \A e \in CatalogExamples : \A n \in 1..MaxTopK :
            ClassifyOutcomes(collection.records, e, n)
                = ClassifyOutcomes(last.before.records, e, n)

\* C11 amended: when the index held the records of the current catalog at
\* the time reset() was called, classify(e) can return after the reset
\* exactly the (intent id, confidence) pairs it could return before it.
C11_ResetKeepsFreshClassification ==
    (ResetRoundTrip /\ IsCatalogIndex(last.before.records)) =>
        \A e \in CatalogExamples : \A n \in 1..MaxTopK :
            ClassifyOutcomes(last.before.records, e, n)
                = ClassifyOutcomes(collection.records, e, n)

\* C11 witness: a reset() of an index of the current catalog has embedded
\* the catalog again and returned, and classify of some example has a
\* neighbour of another intent to vote against.
C11_Witness ==
    /\ ResetRoundTrip
    /\ IsCatalogIndex(last.before.records)
    /\ last.embeds = 1
    /\ \E e \in CatalogExamples :
          \E x \in ClassifyOutcomes(collection.records, e, MaxTopK) : x[2] < 1000

\* --------------------------------------------------------- search, restated
\* search has returned to its caller.
Searched == last.op = "search" /\ last.outcome = "ok"

Hits == 1..Len(last.results.metadatas)

\* The content the locator of hit i resolves to in the running process:
\* some non-empty text bound to the variable in a module that imports.
ResolvedTexts(i) ==
    LET module == import_module(catalog, last.results.metadatas[i].module)
    IN IF module.raised THEN {}
       ELSE {p[2] : p \in {x \in module.names :
                               x[1] = last.results.metadatas[i].variable /\ x[2] # ""}}

Resolvable == {i \in Hits : ResolvedTexts(i) # {}}

\* C12: a search whose query was answered returns normally, whatever the
\* locators of the hits resolve to: at most top_k entries, one for each hit
\* whose locator resolves and none for the others, each carrying the
\* non-empty text its locator resolves to.
C12_UnresolvedHitsDropped ==
    (last.op = "search" /\ last.found >= 0)
        => /\ last.outcome = "ok"
           /\ Len(last.output) <= last.top_k
           /\ Len(last.output) = Cardinality(Resolvable)
           /\ \A i \in Resolvable :
                 \E j \in 1..Len(last.output) :
                    /\ last.output[j].title = last.results.metadatas[i].title
                    /\ last.output[j].content \in ResolvedTexts(i)
           /\ \A j \in 1..Len(last.output) :
                 last.output[j].content \notin {None, ""}

\* C12 witness: a search found a hit whose locator does not resolve and
\* returned another hit.
C12_Witness ==
    /\ Searched
    /\ Hits \ Resolvable # {}
    /\ Len(last.output) > 0

\* C13: the list search returns is in non-increasing order of similarity,
\* and its entries are the hits whose locator resolves, in the order the
\* index returned them, each with its own rounded similarity.
C13_OutputInIndexOrder ==
    Searched =>
        /\ \A i, j \in 1..Len(last.output) :
              i < j => last.output[i].similarity >= last.output[j].similarity
        /\ \E g \in [1..Len(last.output) -> Hits] :
              /\ \A i, j \in 1..Len(last.output) : i < j => g[i] < g[j]
              /\ \A i \in 1..Len(last.output) :
                    /\ g[i] \in Resolvable
                    /\ last.output[i].title = last.results.metadatas[g[i]].title
                    /\ last.output[i].similarity
                          = Round3(Similarity(last.results.distances[g[i]]))

\* C13 witness: the nearest hit was dropped and two hits of different
\* similarity were returned.
C13_Witness ==
    /\ Searched
    /\ 1 \in Hits \ Resolvable
    /\ Len(last.output) > 1
    /\ last.output[1].similarity # last.output[2].similarity

\* ------------------------------------------------------ queries and the index
Queries == {"classify", "search"}

\* The rankings the index may answer the logged query with.
AnswersOf(log) ==
    Rankings(collection.records,
             IF log.op = "classify" THEN EmbedQuery(log.message) ELSE EmbedDslQuery(log.message),
             log.top_k)

\* C14: a classify or search call changes neither the records of the
\* collection nor anything else of the index or its objects, and what it
\* returns is what the call returns on that index by itself: the value
\* computed from one of the answers the index gives to its query, whatever
\* the other callers are doing.
C14_QueriesReadOnly ==
    [][ last'.op \in Queries =>
          /\ UNCHANGED <<google_api_key, kind, catalog, collection, nextUuid, pc, obj, self_collection,
                         built, retriever_instance, opEmbeds, reset_from>>
          /\ last'.found >= 0 =>
                \E f \in AnswersOf(last') :
                   LET results == QueryResult(collection.records,
                                              IF last'.op = "classify"
                                              THEN EmbedQuery(last'.message)
                                              ELSE EmbedDslQuery(last'.message), f)
                   IN /\ last'.results = results
                      /\ last'.op = "classify" => last'.result = ClassifyResult(catalog, results)
                      /\ last'.op = "search"
                            => last'.output = SearchOutput(catalog, results, Len(results.metadatas))
      ]_vars

\* C14 witness: both sessions hold a classifier on the populated index and
\* the second one has classified a message with neighbours of two intents.
C14_Witness ==
    /\ Voted
    /\ last.caller = "t2"
    /\ \A c \in Callers : built[c] /\ pc[c] = "idle" /\ Live(self_collection[c])
    /\ Cardinality(NeighbourIntents) > 1
    /\ IsCatalogIndex(collection.records)

\* A reset() of caller c is between its delete_collection and the end of its
\* repopulation.
InReset(c) == pc[c] \in {"reset_create", "reset_init", "reset_add"}

\* C15: no classify or search call is answered from an index that a reset()
\* in progress has re-created and not yet repopulated.
C15_NoQueryDuringReset ==
    ~( /\ last.op \in Queries
       /\ last.found = 0
       /\ Len(IndexData(kind, catalog)) > 0
       /\ \E c \in Callers : InReset(c) )

\* ------------------------------------------------------ compose, restated
\* compose has returned a prompt in the current turn.
Composed == composed # NoPrompt

\* The prompt cut at its separators: the texts at the odd places.
PromptFragments ==
    [i \in 1..((Len(composed.prompt) + 1) \div 2) |-> composed.prompt[2 * i - 1]]

KnowledgeTexts ==
    {"DSL_OVERVIEW_PROMPT", "PRICING_RULES_PROMPT", "VALIDATION_RULES_PROMPT",
     "FORM_SCHEMA_PROMPT", "CONDITIONS_PROMPT"}

\* The knowledge fragments of the prompt, in the order they appear.
Knowledge == SelectSeq(PromptFragments, LAMBDA x : x \in KnowledgeTexts)

KnowledgeSet == {Knowledge[i] : i \in 1..Len(Knowledge)}

\* The intent fragments the static table lists for an intent id.
TableFragments(intent_id) ==
    CASE intent_id = "create_event" -> <<"CREATE_EVENT_PROMPT">>
      [] intent_id = "update_event" -> <<"UPDATE_EVENT_PROMPT">>
      [] intent_id = "get_event" -> <<"SEARCH_EVENT_PROMPT">>
      [] OTHER -> << >>

\* The case-folded message.
Folded(message) == [i \in 1..Len(message) |-> IF message[i] = "F" THEN "f" ELSE message[i]]

\* Keyword k occurs in text t at offset o.
OccursAt(k, t, o) == o + Len(k) <= Len(t) /\ \A j \in 1..Len(k) : t[o + j] = k[j]

\* The keyword categories of which some keyword is a substring of the
\* case-folded message.
Matched(message) ==
    {UPDATE_KEYWORDS[n].category : n \in
        {m \in 1..Len(UPDATE_KEYWORDS) :
            \E k \in 1..Len(UPDATE_KEYWORDS[m].keywords) :
                \E o \in 0..Len(message) :
                    OccursAt(UPDATE_KEYWORDS[m].keywords[k], Folded(message), o)}}

\* The fragment set of a category.
FragmentSet(category) ==
    CASE category \in {"pricing", "discount"} -> {"PRICING_RULES_PROMPT", "CONDITIONS_PROMPT"}
      [] category = "form" -> {"FORM_SCHEMA_PROMPT"}
      [] category = "validation" -> {"VALIDATION_RULES_PROMPT", "CONDITIONS_PROMPT"}

\* No text occurs twice in the sequence.
NoRepeat(seq) == \A i, j \in 1..Len(seq) : i # j => seq[i] # seq[j]

\* C16: the prompt is the fragments joined by the separator, in the order:
\* the base fragment, first and only there; the fragments the table lists
\* for the intent id (none for an id the table does not have); the
\* knowledge fragments, which only create_event and update_event have.
C16_ComposeOrder ==
    Composed =>
        /\ Len(composed.prompt) % 2 = 1
        /\ \A i \in 1..Len(composed.prompt) :
              (composed.prompt[i] = SEPARATOR) <=> (i % 2 = 0)
        /\ PromptFragments = <<"BASE_PROMPT">> \o TableFragments(composed.intent_id) \o Knowledge
        /\ \A i \in 2..Len(PromptFragments) : PromptFragments[i] # "BASE_PROMPT"
        /\ composed.intent_id \notin {"create_event", "update_event"} => Knowledge = << >>

\* C16 witness: a prompt of base, intent and three knowledge fragments,
\* composed in a process whose set order is not the declared order.
C16_Witness ==
    /\ Composed
    /\ composed.intent_id = "update_event"
    /\ Len(PromptFragments) = 5
    /\ hash_order # ALL_DSL_SPECS

\* C17: the prompt of create_event holds the five knowledge fragments and is
\* the same text whatever the message.
C17_CreateEventFullKnowledge ==
    (Composed /\ composed.intent_id = "create_event") =>
        /\ KnowledgeSet = KnowledgeTexts
        /\ composed.prompt =
              <<"BASE_PROMPT", SEPARATOR, "CREATE_EVENT_PROMPT", SEPARATOR,
                "DSL_OVERVIEW_PROMPT", SEPARATOR, "PRICING_RULES_PROMPT", SEPARATOR,
                "VALIDATION_RULES_PROMPT", SEPARATOR, "FORM_SCHEMA_PROMPT", SEPARATOR,
                "CONDITIONS_PROMPT">>

\* C17 witness: create_event was composed for a message that matches one
\* keyword category only, in a process whose set order is not the declared.
C17_Witness ==
    /\ Composed
    /\ composed.intent_id = "create_event"
    /\ Matched(composed.message) = {"form"}
    /\ hash_order # ALL_DSL_SPECS

C19_OverviewIffNoMatch ==
    (Composed /\ composed.intent_id = "update_event") =>
        /\ ("DSL_OVERVIEW_PROMPT" \in KnowledgeSet) <=> (Matched(composed.message) = {})
        /\ Matched(composed.message) = {} => Knowledge = <<"DSL_OVERVIEW_PROMPT">>
        /\ Knowledge # << >>

\* C19 witness: a message holding the characters of a keyword, not as a
\* substring, got the overview alone.
C19_Witness ==
    /\ Composed
    /\ composed.intent_id = "update_event"
    /\ composed.message = <<"wei", "lan">>
    /\ Knowledge = <<"DSL_OVERVIEW_PROMPT">>

\* C20: the prompt is decided by the intent id and the message alone: the
\* knowledge fragments come in the same order in every run of the program,
\* whatever order its sets iterate in.
C20_KnowledgeOrderFixed ==
    Composed => \A order \in HashOrders :
                   compose(order, composed.intent_id, composed.message) = composed.prompt

\* C21: a call of compose returns what an earlier call with the same
\* arguments returned, whatever happened in between and in whichever process
\* of the program each call was made.
C21_SameCallSamePrompt ==
    (Composed /\ earlier # NoPrompt) => composed.prompt = earlier.prompt

\* The number of fragments a prompt was joined from: no fragment is the
\* separator.
JoinedFragments(prompt) == Len(SelectSeq(prompt, LAMBDA x : x # SEPARATOR))

C27_NoCredentialNoInstance ==
    [][~google_api_key =>
          /\ collection' = collection
          /\ nextUuid' = nextUuid
          /\ opEmbeds' = opEmbeds
          /\ \A c \in Callers : pc'[c] = "idle" /\ ~built'[c] /\ self_collection'[c] = 0
          /\ retriever_instance' = "none"
          /\ last'.op = "construct" => last'.outcome = "error" /\ last'.embeds = 0]_vars

\* A construction has failed in a process without the credential, while the
\* server holds a populated collection from an earlier process.
C27_Witness ==
    /\ ~google_api_key
    /\ last.op = "construct"
    /\ last.outcome = "error"
    /\ last.error = "GOOGLE_API_KEY is required"
    /\ collection.exists
    /\ Len(collection.records) > 0

\* C28: when a reset() has ended, by returning or by raising, and no other
\* operation is in progress, the collection exists and holds records
\* (whenever the catalog has any), so that a query finds neighbours.
C28_ResetLeavesRecords ==
    (/\ last.op = "reset"
     /\ \A c \in Callers : pc[c] = "idle"
     /\ Len(IndexData(kind, catalog)) > 0)
        => collection.exists /\ Len(collection.records) > 0

\* C23: when the classification pipeline is unavailable at startup (the rag
\* package cannot be imported, or IntentClassifier() raises), an EventAgent
\* can still be constructed, and every chat of an agent whose use_rag is off
\* is answered by the static default prompt, calls neither classifier nor
\* composer, and leaves 'general' as the intent reported.
C23_DisabledModeGeneral ==
    /\ core # "import_error"
    /\ (reply.op = "construct" /\ reply.raised_by = "IntentClassifier") =>
          agent.exists /\ ~agent.use_rag
    /\ (agent.exists /\ ~agent.use_rag /\ reply.op = "chat") =>
          /\ reply.prompt = SYSTEM_PROMPT
          /\ reply.classifier_calls = 0
          /\ reply.composer_calls = 0
          /\ get_last_intent(agent).intent_id = "general"

\* C24: a chat in which classify raised is answered all the same, by the
\* static default prompt.
C24_ClassifyFailureAnswered ==
    (reply.op = "chat" /\ reply.classifier_calls = 1 /\ reply.classified = NoIntent) =>
        /\ reply.outcome = "ok"
        /\ reply.prompt = SYSTEM_PROMPT

\* C25: with use_rag on, the agent that is invoked for a message carries the
\* prompt composed in this turn, from the classification of this message
\* and from this message.
C25_PromptOfThisTurn ==
    (reply.op = "chat" /\ agent.use_rag /\ reply.raised_by \in {"", "invoke"}) =>
        /\ reply.classified \in classify(reply.message.query)
        /\ reply.prompt = compose(hash_order, reply.classified.intent_id,
                                  reply.message.text)
        /\ get_last_intent(agent) = reply.classified

\* A second message has been answered whose prompt is none that the first
\* message of the conversation could have been given.
C25_Witness ==
    /\ reply.op = "chat"
    /\ reply.outcome = "ok"
    /\ agent.use_rag
    /\ Len(agent.messages) = 4
    /\ \E u \in Utterances :
          /\ u.query = agent.messages[1].content
          /\ \A first \in classify(u.query) :
                compose(hash_order, first.intent_id, u.text) # reply.prompt

\* C29: an agent whose use_rag is on has its classifier and its composer,
\* and no chat ends on a missing one.
C29_RagFlagImpliesComponents ==
    /\ (agent.exists /\ agent.use_rag) =>
          agent.intent_classifier # None /\ agent.prompt_retriever # None
    /\ reply.raised_by # "AttributeError"

\* IntentClassifier() raised in the constructor of the agent, and the agent
\* has answered a message since.
C29_Witness ==
    /\ agent.exists
    /\ RAG_AVAILABLE
    /\ ~google_api_key
    /\ agent.intent_classifier = None
    /\ reply.op = "chat"
    /\ reply.outcome = "ok"

\* user, assistant, user, assistant, ...: an even number of entries.
Alternating(history) ==
    /\ Len(history) % 2 = 0
    /\ \A i \in 1..Len(history) :
          history[i][1] = IF i % 2 = 1 THEN "user" ELSE "assistant"

\* C30: between calls the history of the agent alternates user and
\* assistant, every user message followed by one assistant message.
C30_HistoryAlternates ==
    agent.exists => Alternating(get_history(agent.messages))

====
